---- MODULE Spec2Model ----
(***************************************************************************)
(* Model of lsmi-ps3.c: the PS3-controller pseudo-MIDI driver.  The state  *)
(* is the global mapping table map[22], the program counter pgm, the       *)
(* locals of main (iev, i, ev) and the position of main; the sequencer     *)
(* port is the sequence `out` of the events handed to send_event.          *)
(***************************************************************************)
EXTENDS Integers, Sequences, FiniteSets, TLC

VARIABLES
    pc,        \* position of main: "args", "setup", "read", "process", "send", "exited"
    map,       \* struct map_s map[22], indexed 0..21
    pgm,       \* int pgm
    iev,       \* struct input_event iev (type, code, value)
    i,         \* int i of the loop body, NoSlot while it holds no slot
    ev,        \* snd_seq_event_t ev
    out,       \* events passed to send_event, oldest first
    ins,       \* input events delivered by read(), oldest first
    nread,     \* number of read() calls made, failed ones included
    sent,      \* events passed to send_event since the last read() call
    pgm0,      \* value of pgm at the last read() call
    rdok,      \* whether the last read() call delivered an event
    opts,      \* the -1/-2/-3 options get_args was given, in order
    status,    \* exit status of the process, NoStatus while it runs
    grabbed,   \* whether the process holds the EVIOCGRAB grab on fd
    seqopen,   \* whether the sequencer handle seq is open
    caught     \* whether a signal was caught by die

vars == <<pc, map, pgm, iev, i, ev, out, ins, nread, sent, pgm0, rdok, opts,
          status, grabbed, seqopen, caught>>

----------------------------------------------------------------------------
(* Bounds of the model *)

\* read() calls per run, specification Spec
MaxEvents == 1
\* read() calls per run, specification SpecSeq
MaxSeqEvents == 3
\* -1/-2/-3 options on the command line
MaxOverrides == 1
MaxPresses == 130
MaxSamples == 1

----------------------------------------------------------------------------
(* Constants of the program and of the headers it includes *)

DOWN == 1

SND_SEQ_EVENT_NOTEON == 6
SND_SEQ_EVENT_CONTROLLER == 10
SND_SEQ_EVENT_PGMCHANGE == 11
SND_SEQ_EVENT_PITCHBEND == 13

EV_KEY == 1
EV_ABS == 3

BTN_SOUTH == 304
BTN_EAST == 305
BTN_NORTH == 307
BTN_WEST == 308
BTN_TL == 310
BTN_TR == 311
BTN_TL2 == 312
BTN_TR2 == 313
BTN_SELECT == 314
BTN_START == 315
BTN_THUMBL == 317
BTN_THUMBR == 318
BTN_DPAD_UP == 544
BTN_DPAD_DOWN == 545
BTN_DPAD_LEFT == 546
BTN_DPAD_RIGHT == 547

ABS_X == 0
ABS_Y == 1
ABS_Z == 2
ABS_RX == 3
ABS_RY == 4
ABS_RZ == 5

\* markers of the model for "holds no value"
NoSlot == -1
NoStatus == -1

Slots == 0..21

----------------------------------------------------------------------------
(* The mapping table *)

Slot(t, n, c) == [ev_type |-> t, number |-> n, channel |-> c]

\* struct map_s map[22] = { ... }
DefaultMap ==
    [s \in Slots |->
        CASE s = 0  -> Slot(SND_SEQ_EVENT_NOTEON, 48, 0)
          [] s = 1  -> Slot(SND_SEQ_EVENT_NOTEON, 52, 0)
          [] s = 2  -> Slot(SND_SEQ_EVENT_NOTEON, 55, 0)
          [] s = 3  -> Slot(SND_SEQ_EVENT_NOTEON, 60, 0)
          [] s = 4  -> Slot(SND_SEQ_EVENT_NOTEON, 64, 0)
          [] s = 5  -> Slot(SND_SEQ_EVENT_NOTEON, 67, 0)
          [] s = 6  -> Slot(SND_SEQ_EVENT_NOTEON, 72, 0)
          [] s = 7  -> Slot(SND_SEQ_EVENT_NOTEON, 76, 0)
          [] s = 8  -> Slot(SND_SEQ_EVENT_NOTEON, 79, 0)
          [] s = 9  -> Slot(SND_SEQ_EVENT_NOTEON, 84, 0)
          [] s = 10 -> Slot(SND_SEQ_EVENT_NOTEON, 50, 0)
          [] s = 11 -> Slot(SND_SEQ_EVENT_NOTEON, 55, 0)
          [] s = 12 -> Slot(SND_SEQ_EVENT_NOTEON, 59, 0)
          [] s = 13 -> Slot(SND_SEQ_EVENT_NOTEON, 62, 0)
          [] s = 14 -> Slot(SND_SEQ_EVENT_PITCHBEND, 0, 0)
          [] s = 15 -> Slot(SND_SEQ_EVENT_PITCHBEND, 1, 0)
          [] s = 16 -> Slot(SND_SEQ_EVENT_PITCHBEND, 2, 0)
          [] s = 17 -> Slot(SND_SEQ_EVENT_PITCHBEND, 3, 0)
          [] s = 18 -> Slot(SND_SEQ_EVENT_NOTEON, 77, 0)
          [] s = 19 -> Slot(SND_SEQ_EVENT_NOTEON, 81, 0)
          [] s = 20 -> Slot(SND_SEQ_EVENT_PGMCHANGE, 81, 0)
          [] s = 21 -> Slot(SND_SEQ_EVENT_PGMCHANGE, 81, 0)]

----------------------------------------------------------------------------
(* parse_map: sscanf( s, "%1[cn]:%u:%u", t, &map[i].channel, &map[i].number ) *)
(* A string is a sequence of one-character strings.                          *)

Digits == {"0", "1", "2", "3", "4", "5", "6", "7", "8", "9"}

DigitVal ==
    ("0" :> 0) @@ ("1" :> 1) @@ ("2" :> 2) @@ ("3" :> 3) @@ ("4" :> 4) @@
    ("5" :> 5) @@ ("6" :> 6) @@ ("7" :> 7) @@ ("8" :> 8) @@ ("9" :> 9)

RECURSIVE ScanDigits(_, _, _)
\* the digits of s from position p on, accumulated in base 10
ScanDigits(s, p, acc) ==
    IF p <= Len(s) /\ s[p] \in Digits
    THEN ScanDigits(s, p + 1, acc * 10 + DigitVal[s[p]])
    ELSE [val |-> acc, pos |-> p]

RECURSIVE SkipSpace(_, _)
SkipSpace(s, p) ==
    IF p <= Len(s) /\ s[p] = " " THEN SkipSpace(s, p + 1) ELSE p

\* one %u conversion at position p: white space is skipped, then at least
\* one digit is needed (the strings of the model carry no sign)
ScanUInt(s, p) ==
    LET q == SkipSpace(s, p)
        r == ScanDigits(s, q, 0)
    IN  [ok |-> r.pos > q, val |-> r.val, pos |-> r.pos]

\* the literal ':' of the format at position p
MatchColon(s, p) == p <= Len(s) /\ s[p] = ":"

\* sscanf with the format "%1[cn]:%u:%u": the number of conversions done
\* (-1 is EOF) and the values stored; a conversion that is not reached
\* stores nothing (stored |-> FALSE)
Sscanf(s) ==
    LET none == [stored |-> FALSE, val |-> 0]
        some(v) == [stored |-> TRUE, val |-> v]
        res(n, t, c, m) == [n |-> n, t |-> t, channel |-> c, number |-> m]
    IN  IF Len(s) = 0 THEN res(-1, "", none, none)
        ELSE IF s[1] \notin {"c", "n"} THEN res(0, "", none, none)
        ELSE IF ~MatchColon(s, 2) THEN res(1, s[1], none, none)
        ELSE LET u1 == ScanUInt(s, 3) IN
             IF ~u1.ok THEN res(1, s[1], none, none)
             ELSE IF ~MatchColon(s, u1.pos) THEN res(2, s[1], some(u1.val), none)
             ELSE LET u2 == ScanUInt(s, u1.pos + 1) IN
                  IF ~u2.ok THEN res(2, s[1], some(u1.val), none)
                  ELSE res(3, s[1], some(u1.val), some(u2.val))

\* parse_map with the channel test off by one at its lower end
parse_map_ChannelZero(m, k, s) ==
    LET r == Sscanf(s)
        ch == IF r.channel.stored THEN r.channel.val ELSE m[k].channel
        nu == IF r.number.stored THEN r.number.val ELSE m[k].number
        m1 == [m EXCEPT ![k].channel = ch, ![k].number = nu]
    IN  IF r.n # 3 THEN [map |-> m1, exit |-> TRUE]
        ELSE IF ~(ch >= 0 /\ ch <= 16) THEN [map |-> m1, exit |-> TRUE]
        ELSE [map |-> [m1 EXCEPT ![k].channel = ch - 1,
                                 ![k].ev_type = IF r.t = "c"
                                                THEN SND_SEQ_EVENT_CONTROLLER
                                                ELSE SND_SEQ_EVENT_NOTEON],
              exit |-> FALSE]

\* parse_map( i, s ): the table afterwards and whether exit( 1 ) was called
parse_map(m, k, s) ==
    LET r == Sscanf(s)
        ch == IF r.channel.stored THEN r.channel.val ELSE m[k].channel
        nu == IF r.number.stored THEN r.number.val ELSE m[k].number
        m1 == [m EXCEPT ![k].channel = ch, ![k].number = nu]
    IN  IF r.n # 3 THEN [map |-> m1, exit |-> TRUE]
        ELSE IF ~(ch >= 1 /\ ch <= 16) THEN [map |-> m1, exit |-> TRUE]
        ELSE \* map[i].channel--; the test map[i].channel > 127 only prints
             [map |-> [m1 EXCEPT ![k].channel = ch - 1,
                                 ![k].ev_type = IF r.t = "c"
                                                THEN SND_SEQ_EVENT_CONTROLLER
                                                ELSE SND_SEQ_EVENT_NOTEON],
              exit |-> FALSE]


RECURSIVE ApplyOptions(_, _)
RECURSIVE ApplyOptions_DigitAsIndex(_, _)
\* get_args with the option's digit taken as the index of the slot
ApplyOptions_DigitAsIndex(m, o) ==
    IF o = <<>> THEN [map |-> m, exit |-> FALSE]
    ELSE LET r == parse_map(m, Head(o).slot + 1, Head(o).s)
         IN  IF r.exit THEN r ELSE ApplyOptions_DigitAsIndex(r.map, Tail(o))

\* get_args: the options '1', '2', '3' of the command line, in order; an
\* option is [slot, s] and calls parse_map( slot, s )
ApplyOptions(m, o) ==
    IF o = <<>> THEN [map |-> m, exit |-> FALSE]
    ELSE LET r == parse_map(m, Head(o).slot, Head(o).s)
         IN  IF r.exit THEN r ELSE ApplyOptions(r.map, Tail(o))

----------------------------------------------------------------------------
(* The dispatch loop of main *)

\* the switch on iev.code behind the test of iev.type
classify(type, code) ==
    IF type # EV_KEY /\ type # EV_ABS THEN NoSlot
    ELSE CASE code = BTN_NORTH      -> 0
           [] code = BTN_SOUTH      -> 1
           [] code = BTN_EAST       -> 2
           [] code = BTN_WEST       -> 3
           [] code = BTN_DPAD_UP    -> 4
           [] code = BTN_DPAD_DOWN  -> 5
           [] code = BTN_DPAD_RIGHT -> 6
           [] code = BTN_DPAD_LEFT  -> 7
           [] code = BTN_TR         -> 8
           [] code = BTN_TL         -> 9
           [] code = BTN_TR2        -> 10
           [] code = BTN_TL2        -> 11
           [] code = BTN_THUMBR     -> 12
           [] code = BTN_THUMBL     -> 13
           [] code = ABS_X          -> 14
           [] code = ABS_Y          -> 15
           [] code = ABS_RX         -> 16
           [] code = ABS_RY         -> 17
           [] code = ABS_Z          -> 18
           [] code = ABS_RZ         -> 19
           [] code = BTN_SELECT     -> 20
           [] code = BTN_START      -> 21
           [] OTHER                 -> NoSlot

\* a sequencer event as the snd_seq_ev_set_* macros fill it: channel is an
\* unsigned char in both members of the union (snd_seq_ev_note_t and
\* snd_seq_ev_ctrl_t); for a note, param is note.note, an unsigned char too,
\* and value is note.velocity; for a control event, param and value are
\* control.param and control.value
Event(t, c, p, v) == [type |-> t, channel |-> c % 256, param |-> p, value |-> v]

\* snd_seq_ev_clear( &ev ) followed by ev.type = map[i].ev_type
Cleared(t) == Event(t, 0, 0, 0)

\* the scaling without the recentring
PitchBendValue_Uncentred(v) == v * 64

\* the scale of a 7-bit sample applied to the 8-bit one
PitchBendValue_SevenBitScale(v) == (v * 128) - 8192

\* (iev.value * 64) - 8192
PitchBendValue(v) == (v * 64) - 8192

\* a release that keeps the note sounding
Velocity_AlwaysOn(v) == 127

\* iev.value == DOWN ? 127 : 0
Velocity(v) == IF v = DOWN THEN 127 ELSE 0

\* the counter left where it was
NextProgram_Stuck(p) == p

\* pgm kept within the 7 bits of a MIDI program number
NextProgram_Wraps(p) == (p + 1) % 128

\* pgm = pgm + 1
NextProgram(p) == p + 1

\* the second switch with a default branch that does not leave by continue
Synthesize_DefaultFallsThrough(slot, value, p) ==
    CASE slot.ev_type = SND_SEQ_EVENT_PITCHBEND ->
            [send |-> TRUE, pgm |-> p,
             ev |-> Event(SND_SEQ_EVENT_PITCHBEND, slot.channel, 0,
                          PitchBendValue(value))]
      [] slot.ev_type = SND_SEQ_EVENT_NOTEON ->
            [send |-> TRUE, pgm |-> p,
             ev |-> Event(SND_SEQ_EVENT_NOTEON, slot.channel,
                          slot.number % 256, Velocity(value))]
      [] slot.ev_type = SND_SEQ_EVENT_PGMCHANGE ->
            IF value = 1
            THEN [send |-> TRUE, pgm |-> NextProgram(p),
                  ev |-> Event(SND_SEQ_EVENT_PGMCHANGE, slot.channel, 0,
                               NextProgram(p))]
            ELSE [send |-> FALSE, pgm |-> p,
                  ev |-> Cleared(SND_SEQ_EVENT_PGMCHANGE)]
      [] OTHER ->
            [send |-> TRUE, pgm |-> p, ev |-> Cleared(slot.ev_type)]

\* the switch on map[i].ev_type: the event built, the new value of pgm and
\* whether control reaches send_event (send) or leaves by continue
Synthesize(slot, value, p) ==
    CASE slot.ev_type = SND_SEQ_EVENT_PITCHBEND ->
            [send |-> TRUE, pgm |-> p,
             ev |-> Event(SND_SEQ_EVENT_PITCHBEND, slot.channel, 0,
                          PitchBendValue(value))]
      [] slot.ev_type = SND_SEQ_EVENT_NOTEON ->
            [send |-> TRUE, pgm |-> p,
             ev |-> Event(SND_SEQ_EVENT_NOTEON, slot.channel,
                          slot.number % 256, Velocity(value))]
      [] slot.ev_type = SND_SEQ_EVENT_PGMCHANGE ->
            IF value = 1
            THEN [send |-> TRUE, pgm |-> NextProgram(p),
                  ev |-> Event(SND_SEQ_EVENT_PGMCHANGE, slot.channel, 0,
                               NextProgram(p))]
            ELSE [send |-> FALSE, pgm |-> p,
                  ev |-> Cleared(SND_SEQ_EVENT_PGMCHANGE)]
      [] OTHER ->
            [send |-> FALSE, pgm |-> p, ev |-> Cleared(slot.ev_type)]

----------------------------------------------------------------------------
(* Inputs *)

Str_c_1_64   == <<"c", ":", "1", ":", "6", "4">>
Str_n_16_300 == <<"n", ":", "1", "6", ":", "3", "0", "0">>
Str_c_0_64   == <<"c", ":", "0", ":", "6", "4">>
Str_c_17_64  == <<"c", ":", "1", "7", ":", "6", "4">>
Str_x_1_1    == <<"x", ":", "1", ":", "1">>
Str_c_1      == <<"c", ":", "1">>

\* the mapping strings given to -1, -2, -3
OverrideSpecs ==
    {Str_c_1_64, Str_n_16_300, Str_c_0_64, Str_c_17_64, Str_x_1_1, Str_c_1}

Option == [slot : 0..2, s : OverrideSpecs]

RECURSIVE SeqsUpTo(_, _)
\* the sequences over S of length at most n
SeqsUpTo(S, n) ==
    IF n = 0 THEN {<<>>}
    ELSE LET shorter == SeqsUpTo(S, n - 1)
         IN  shorter \cup {Append(q, x) : q \in shorter, x \in S}

\* the command lines of specification Spec
CommandLines == SeqsUpTo(Option, MaxOverrides)

Codes ==
    {BTN_NORTH, BTN_SOUTH, BTN_EAST, BTN_WEST, BTN_DPAD_UP, BTN_DPAD_DOWN,
     BTN_DPAD_RIGHT, BTN_DPAD_LEFT, BTN_TR, BTN_TL, BTN_TR2, BTN_TL2,
     BTN_THUMBR, BTN_THUMBL, ABS_X, ABS_Y, ABS_RX, ABS_RY, ABS_Z, ABS_RZ,
     BTN_SELECT, BTN_START}

\* a code outside the switch: KEY_A
OtherCodes == {30}

\* EV_REL, a type main drops
OtherTypes == {2}

RawValues == {0, 1, 256}

\* the events of specification Spec: every code under both types main
\* lets through, and under a type it drops one button, one axis and the
\* unknown key (the type is tested before the code is looked at)
InputEvent ==
    [type : {EV_KEY, EV_ABS}, code : Codes \cup OtherCodes, value : RawValues]
    \cup [type : OtherTypes, code : {BTN_SOUTH, ABS_X} \cup OtherCodes,
          value : RawValues]

\* the events of specification SpecSeq: presses and releases of two note
\* buttons and of a program button, a press and an autorepeat of the other
\* program button, one stick axis, one unknown key
SeqEvents ==
    {[type |-> EV_KEY, code |-> c, value |-> v] :
        c \in {BTN_SOUTH, BTN_NORTH, BTN_SELECT}, v \in {0, 1}}
    \cup {[type |-> EV_KEY, code |-> BTN_START, value |-> 1],
          [type |-> EV_KEY, code |-> BTN_START, value |-> 2],
          [type |-> EV_ABS, code |-> ABS_X, value |-> 0],
          [type |-> EV_ABS, code |-> ABS_X, value |-> 256],
          [type |-> EV_KEY, code |-> 30, value |-> 1]}

\* what the uninitialised iev is taken to hold in specification Spec when
\* the first read fails: one event for each way the loop body can go
\* what the sticks report: every value of an unsigned byte on ABS_X and ABS_RY
AxisSamples ==
    [type : {EV_ABS}, code : {ABS_X, ABS_RY}, value : 0..255]

\* the press of BTN_START
PressEvents == {[type |-> EV_KEY, code |-> BTN_START, value |-> 1]}

StackGarbage ==
    {[type |-> EV_KEY, code |-> BTN_SOUTH, value |-> 1],
     [type |-> EV_ABS, code |-> ABS_X, value |-> 0],
     [type |-> EV_KEY, code |-> BTN_SELECT, value |-> 1],
     [type |-> EV_KEY, code |-> BTN_SELECT, value |-> 0],
     [type |-> EV_KEY, code |-> 30, value |-> 0],
     [type |-> 0, code |-> 0, value |-> 0]}

\* the contents of iev and ev before anything is stored in them
UninitInput == [type |-> -1, code |-> -1, value |-> -1]
UninitEvent == [type |-> -1, channel |-> 0, param |-> 0, value |-> 0]

----------------------------------------------------------------------------
(* Actions *)

Init ==
    /\ pc = "args"
    /\ map = DefaultMap
    /\ pgm = 0
    /\ iev = UninitInput
    /\ i = NoSlot
    /\ ev = UninitEvent
    /\ out = <<>>
    /\ ins = <<>>
    /\ nread = 0
    /\ sent = <<>>
    /\ pgm0 = 0
    /\ rdok = TRUE
    /\ opts = <<>>
    /\ status = NoStatus
    /\ grabbed = FALSE
    /\ seqopen = FALSE
    /\ caught = FALSE

\* get_args( argc, argv ) on one of the command lines of C
GetArgs(C) ==
    /\ pc = "args"
    /\ \E o \in C :
          LET r == ApplyOptions(map, o)
          IN  /\ opts' = o
              /\ map' = r.map
              /\ pc' = IF r.exit THEN "exited" ELSE "setup"
              /\ status' = IF r.exit THEN 1 ELSE status
    /\ UNCHANGED <<pgm, iev, i, ev, out, ins, nread, sent, pgm0, rdok,
                   grabbed, seqopen, caught>>

\* open, init_mouse, open_client, open_output_port, the subscription and
\* set_traps all succeed
Setup ==
    /\ pc = "setup"
    /\ pc' = "read"
    /\ grabbed' = TRUE
    /\ seqopen' = TRUE
    /\ UNCHANGED <<map, pgm, iev, i, ev, out, ins, nread, sent, pgm0, rdok, opts,
                   status, caught>>

\* one of them fails and main calls exit( 1 ): open or init_mouse, before
\* the grab is held, or the subscription, with the grab held and seq open
SetupFail ==
    /\ pc = "setup"
    /\ pc' = "exited"
    /\ status' = 1
    /\ \E held \in BOOLEAN : grabbed' = held /\ seqopen' = held
    /\ UNCHANGED <<map, pgm, iev, i, ev, out, ins, nread, sent, pgm0, rdok, opts,
                   caught>>

\* read( fd, &iev, sizeof( iev ) ) delivers an event of E
Read(E, max) ==
    /\ pc = "read"
    /\ nread < max
    /\ \E e \in E :
          /\ iev' = e
          /\ ins' = Append(ins, e)
    /\ nread' = nread + 1
    /\ sent' = <<>>
    /\ pgm0' = pgm
    /\ rdok' = TRUE
    /\ pc' = "process"
    /\ UNCHANGED <<map, pgm, i, ev, out, opts, status, grabbed, seqopen, caught>>

\* read fails: its result is not looked at, and iev keeps what it held,
\* which before the first event is any value
ReadFail(E, max) ==
    /\ pc = "read"
    /\ nread < max
    /\ IF iev = UninitInput THEN iev' \in E ELSE iev' = iev
    /\ nread' = nread + 1
    /\ sent' = <<>>
    /\ pgm0' = pgm
    /\ rdok' = FALSE
    /\ pc' = "process"
    /\ UNCHANGED <<map, pgm, i, ev, out, ins, opts, status, grabbed, seqopen, caught>>

\* the body of the loop with "map[i].ev_type = ev.type" for
\* "ev.type = map[i].ev_type" at line 409
Process_WritesTable ==
    /\ pc = "process"
    /\ LET s == classify(iev.type, iev.code)
       IN  IF s = NoSlot
           THEN /\ i' = NoSlot
                /\ pc' = "read"
                /\ UNCHANGED <<ev, pgm, map>>
           ELSE LET m == [map EXCEPT ![s].ev_type = 0]
                    r == Synthesize(m[s], iev.value, pgm)
                IN  /\ i' = s
                    /\ map' = m
                    /\ ev' = r.ev
                    /\ pgm' = r.pgm
                    /\ pc' = IF r.send THEN "send" ELSE "read"
    /\ UNCHANGED <<iev, out, ins, nread, sent, pgm0, rdok, opts, status,
                   grabbed, seqopen, caught>>

\* the body of the loop from the test of iev.type to the end of the second
\* switch
Process ==
    /\ pc = "process"
    /\ LET s == classify(iev.type, iev.code)
       IN  IF s = NoSlot
           THEN /\ i' = NoSlot
                /\ pc' = "read"
                /\ UNCHANGED <<ev, pgm>>
           ELSE LET r == Synthesize(map[s], iev.value, pgm)
                IN  /\ i' = s
                    /\ ev' = r.ev
                    /\ pgm' = r.pgm
                    /\ pc' = IF r.send THEN "send" ELSE "read"
    /\ UNCHANGED <<map, iev, out, ins, nread, sent, pgm0, rdok, opts, status,
                   grabbed, seqopen, caught>>

\* send_event( &ev )
Send ==
    /\ pc = "send"
    /\ out' = Append(out, ev)
    /\ sent' = Append(sent, ev)
    /\ pc' = "read"
    /\ UNCHANGED <<map, pgm, iev, i, ev, ins, nread, pgm0, rdok, opts, status,
                   grabbed, seqopen, caught>>

\* clean_up without its snd_seq_close
clean_up_NoSeqClose(g, s) == [grabbed |-> FALSE, seqopen |-> s]

\* clean_up: ioctl( fd, EVIOCGRAB, 0 ), close( fd ), snd_seq_close( seq );
\* g and s are what was held before
clean_up(g, s) == [grabbed |-> FALSE, seqopen |-> FALSE]

\* die( sig ), the handler set_traps installs: it runs when a termination
\* signal arrives, wherever main is in the loop
Die ==
    /\ pc \in {"read", "process", "send"}
    /\ LET c == clean_up(grabbed, seqopen)
       IN  /\ grabbed' = c.grabbed
           /\ seqopen' = c.seqopen
    /\ caught' = TRUE
    /\ status' = 1
    /\ pc' = "exited"
    /\ UNCHANGED <<map, pgm, iev, i, ev, out, ins, nread, sent, pgm0, rdok, opts>>

Next ==
    \/ GetArgs(CommandLines)
    \/ Setup
    \/ SetupFail
    \/ Read(InputEvent, MaxEvents)
    \/ ReadFail(StackGarbage, MaxEvents)
    \/ Process
    \/ Send
    \/ Die

Spec == Init /\ [][Next]_vars

\* the program started without mapping options, on the events of SeqEvents
NextSeq ==
    \/ GetArgs({<<>>})
    \/ Setup
    \/ SetupFail
    \/ Read(SeqEvents, MaxSeqEvents)
    \/ ReadFail(SeqEvents, MaxSeqEvents)
    \/ Process
    \/ Send
    \/ Die

SpecSeq == Init /\ [][NextSeq]_vars

\* a long run of presses of one program button, from the default table
NextPgm ==
    \/ GetArgs({<<>>})
    \/ Setup
    \/ SetupFail
    \/ Read(PressEvents, MaxPresses)
    \/ ReadFail(PressEvents, MaxPresses)
    \/ Process
    \/ Send
    \/ Die

SpecPgm == Init /\ [][NextPgm]_vars

\* samples of two pitch-bend axes over the whole 8-bit range, from the
\* default table
NextAxis ==
    \/ GetArgs({<<>>})
    \/ Setup
    \/ SetupFail
    \/ Read(AxisSamples, MaxSamples)
    \/ ReadFail(StackGarbage, MaxSamples)
    \/ Process
    \/ Send
    \/ Die

SpecAxis == Init /\ [][NextAxis]_vars

----------------------------------------------------------------------------
(* Properties *)

\* a cycle of the loop has ended: main is back at read() after processing
\* the contents of iev
CycleDone == pc = "read" /\ nread > 0

Running == pc \in {"read", "process", "send"}

\* an event as the sequencer receives it
Msg(t, c, p, v) == [type |-> t, channel |-> c, param |-> p, value |-> v]

Key(c, v) == [type |-> EV_KEY, code |-> c, value |-> v]
Axis(c, v) == [type |-> EV_ABS, code |-> c, value |-> v]

\* the documented assignment of buttons and axes to slots
KeySlot ==
    (BTN_NORTH :> 0) @@ (BTN_SOUTH :> 1) @@ (BTN_EAST :> 2) @@ (BTN_WEST :> 3) @@
    (BTN_DPAD_UP :> 4) @@ (BTN_DPAD_DOWN :> 5) @@ (BTN_DPAD_RIGHT :> 6) @@
    (BTN_DPAD_LEFT :> 7) @@ (BTN_TR :> 8) @@ (BTN_TL :> 9) @@ (BTN_TR2 :> 10) @@
    (BTN_TL2 :> 11) @@ (BTN_THUMBR :> 12) @@ (BTN_THUMBL :> 13) @@
    (BTN_SELECT :> 20) @@ (BTN_START :> 21)

AxisSlot ==
    (ABS_X :> 14) @@ (ABS_Y :> 15) @@ (ABS_RX :> 16) @@ (ABS_RY :> 17) @@
    (ABS_Z :> 18) @@ (ABS_RZ :> 19)

\* one of the 22 recognized (domain, code) pairs
Recognized(e) ==
    \/ e.type = EV_KEY /\ e.code \in DOMAIN KeySlot
    \/ e.type = EV_ABS /\ e.code \in DOMAIN AxisSlot

DocumentedSlot(e) ==
    IF e.type = EV_KEY THEN KeySlot[e.code] ELSE AxisSlot[e.code]

\* a press of one of the two program buttons
IsProgramPress(e) ==
    e.type = EV_KEY /\ e.code \in {BTN_SELECT, BTN_START} /\ e.value = 1

\* C1: a cycle on a ProgramChange slot with value 1 and counter K sends
\* exactly one program change carrying K+1 on the slot's channel and leaves
\* the counter at K+1; with any other value it sends nothing and leaves the
\* counter alone; two presses read in a row send K+1 and then K+2.
C1_ProgramChange ==
    /\ (CycleDone /\ i # NoSlot /\ map[i].ev_type = SND_SEQ_EVENT_PGMCHANGE) =>
          /\ iev.value = 1 =>
                /\ sent = <<Msg(SND_SEQ_EVENT_PGMCHANGE, map[i].channel, 0, pgm0 + 1)>>
                /\ pgm = pgm0 + 1
          /\ iev.value # 1 => (sent = <<>> /\ pgm = pgm0)
    /\ (/\ CycleDone
        /\ nread = Len(ins)
        /\ nread >= 2
        /\ IsProgramPress(ins[nread - 1])
        /\ IsProgramPress(ins[nread])) =>
          /\ Len(out) >= 2
          /\ out[Len(out) - 1] = Msg(SND_SEQ_EVENT_PGMCHANGE, 0, 0, pgm - 1)
          /\ out[Len(out)] = Msg(SND_SEQ_EVENT_PGMCHANGE, 0, 0, pgm)
          /\ pgm0 = pgm - 1

\* a release, then a press of each program button
C1_Witness ==
    /\ CycleDone
    /\ ins = <<Key(BTN_SELECT, 0), Key(BTN_SELECT, 1), Key(BTN_START, 1)>>
    /\ nread = 3
    /\ out = <<Msg(SND_SEQ_EVENT_PGMCHANGE, 0, 0, 1),
               Msg(SND_SEQ_EVENT_PGMCHANGE, 0, 0, 2)>>
    /\ pgm = 2

\* C2: after an override of slot s in 0..2 with kind 'c', a cycle on slot s
\* sends exactly one controller change with the slot's channel and number
\* and the raw value.
C2_ControllerPassThrough ==
    (CycleDone /\ i \in 0..2 /\ map[i].ev_type = SND_SEQ_EVENT_CONTROLLER) =>
        sent = <<Msg(SND_SEQ_EVENT_CONTROLLER, map[i].channel, map[i].number,
                     iev.value)>>

\* C3: a cycle on an event whose (domain, code) pair is not one of the 22
\* recognized pairs sends nothing and leaves the counter and the table as
\* they were.
C3_UnknownPairIgnored ==
    (CycleDone /\ ~Recognized(iev)) =>
        /\ sent = <<>>
        /\ pgm = pgm0
        /\ map = ApplyOptions(DefaultMap, opts).map

\* C4: a failed read is fatal: in the cycle that follows it nothing is
\* sent; in particular the event read before it is not processed again.
\* (Stated for a failure that follows at least one delivered event, so that
\* iev holds that event.)
C4_FailedReadIsFatal ==
    (~rdok /\ ins # <<>>) => (pc # "send" /\ sent = <<>>)


\* what each mapping string of OverrideSpecs says: its kind token, its
\* channel and its number (-1: the field is missing)
Fields(s) ==
    CASE s = Str_c_1_64   -> [kind |-> "c", ch |-> 1,  num |-> 64]
      [] s = Str_n_16_300 -> [kind |-> "n", ch |-> 16, num |-> 300]
      [] s = Str_c_0_64   -> [kind |-> "c", ch |-> 0,  num |-> 64]
      [] s = Str_c_17_64  -> [kind |-> "c", ch |-> 17, num |-> 64]
      [] s = Str_x_1_1    -> [kind |-> "x", ch |-> 1,  num |-> 1]
      [] s = Str_c_1      -> [kind |-> "c", ch |-> 1,  num |-> -1]

\* the last option given for slot k, 0 if there is none
LastFor(k) ==
    LET js == {j \in DOMAIN opts : opts[j].slot = k}
    IN  IF js = {} THEN 0 ELSE CHOOSE j \in js : \A l \in js : l <= j

\* C5: an override "k:ch:num" is accepted only if k is 'c' or 'n' and ch is
\* in 1..16; an accepted override leaves in its slot the kind (Controller
\* for 'c', NoteOn for 'n'), the channel ch-1 and the number num; with ch = 0,
\* ch = 17 or another kind token the process exits with status 1 before the
\* loop starts and nothing is ever sent.
C5_OverrideValidity ==
    /\ (pc \in {"setup", "read", "process", "send"}) =>
          /\ \A j \in DOMAIN opts :
                /\ Fields(opts[j].s).kind \in {"c", "n"}
                /\ Fields(opts[j].s).ch \in 1..16
          /\ \A k \in 0..2 :
                LastFor(k) # 0 =>
                   LET f == Fields(opts[LastFor(k)].s)
                   IN  map[k] = [ev_type |-> IF f.kind = "c"
                                             THEN SND_SEQ_EVENT_CONTROLLER
                                             ELSE SND_SEQ_EVENT_NOTEON,
                                 channel |-> f.ch - 1,
                                 number |-> f.num]
    /\ (\E j \in DOMAIN opts :
           \/ Fields(opts[j].s).ch \in {0, 17}
           \/ Fields(opts[j].s).kind \notin {"c", "n"}) =>
          /\ pc = "exited"
          /\ status = 1
          /\ out = <<>>
          /\ nread = 0

\* "c:1:64" on slot 0 was accepted and the loop ran a cycle
C5_Witness ==
    /\ CycleDone
    /\ opts = <<[slot |-> 0, s |-> Str_c_1_64]>>
    /\ map[0] = [ev_type |-> SND_SEQ_EVENT_CONTROLLER, channel |-> 0, number |-> 64]

\* C6: while the loop runs every slot has its channel in 0..15 and its
\* number in 0..127, an override with a number outside 0..127 having made
\* the process exit before the loop.
C6_SlotRanges ==
    Running =>
        \A s \in Slots : map[s].channel \in 0..15 /\ map[s].number \in 0..127

\* C7: each of the 22 recognized pairs is classified to its documented slot
\* and no other pair is classified to a slot.
C7_ClassifierInjective ==
    (nread > 0 /\ pc \in {"read", "send"}) =>
        /\ Recognized(iev) => i = DocumentedSlot(iev)
        /\ i # NoSlot => Recognized(iev)

\* C8: a cycle on a PitchBend slot sends exactly one pitch bend on the
\* slot's channel with the value rawValue*64 - 8192, which is monotonic in
\* rawValue; 0 gives -8192 and 256 gives 8192.
C8_PitchBend ==
    /\ (CycleDone /\ i # NoSlot /\ map[i].ev_type = SND_SEQ_EVENT_PITCHBEND) =>
          /\ sent = <<Msg(SND_SEQ_EVENT_PITCHBEND, map[i].channel, 0,
                          iev.value * 64 - 8192)>>
          /\ iev.value = 0 => sent[1].value = -8192
          /\ iev.value = 256 => sent[1].value = 8192
    /\ \A v, w \in RawValues :
          v <= w => PitchBendValue(v) <= PitchBendValue(w)

\* ABS_X at 256 was read and its pitch bend sent
C8_Witness ==
    /\ CycleDone
    /\ rdok
    /\ iev = Axis(ABS_X, 256)
    /\ i = 14
    /\ sent = <<Msg(SND_SEQ_EVENT_PITCHBEND, 0, 0, 8192)>>

\* C9: a cycle on a NoteOn slot sends exactly one note-on with the slot's
\* channel and note number, with velocity 127 if the raw value is 1 and 0
\* otherwise, and changes no state.
C9_NoteOn ==
    (CycleDone /\ i # NoSlot /\ map[i].ev_type = SND_SEQ_EVENT_NOTEON) =>
        /\ sent = <<Msg(SND_SEQ_EVENT_NOTEON, map[i].channel, map[i].number,
                        IF iev.value = 1 THEN 127 ELSE 0)>>
        /\ pgm = pgm0

\* the default note numbers of the note buttons of SeqEvents
DefaultNote == (BTN_NORTH :> 48) @@ (BTN_SOUTH :> 52)

\* C10: with the default table, a press and then a release of a button of a
\* NoteOn slot send exactly two events, in this order: a note-on with
\* velocity 127 and one with velocity 0, both on channel 0 with the slot's
\* default note number, which for BTN_SOUTH is 52.
C10_PressRelease ==
    /\ \A c \in DOMAIN DefaultNote :
          (CycleDone /\ opts = <<>> /\ nread = 2
             /\ ins = <<Key(c, 1), Key(c, 0)>>) =>
              out = <<Msg(SND_SEQ_EVENT_NOTEON, 0, DefaultNote[c], 127),
                      Msg(SND_SEQ_EVENT_NOTEON, 0, DefaultNote[c], 0)>>
    /\ (CycleDone /\ opts = <<>> /\ nread = 2
          /\ ins = <<Key(BTN_SOUTH, 1), Key(BTN_SOUTH, 0)>>) =>
           out = <<Msg(SND_SEQ_EVENT_NOTEON, 0, 52, 127),
                   Msg(SND_SEQ_EVENT_NOTEON, 0, 52, 0)>>

\* BTN_SOUTH was pressed and released
C10_Witness ==
    /\ CycleDone
    /\ nread = 2
    /\ ins = <<Key(BTN_SOUTH, 1), Key(BTN_SOUTH, 0)>>
    /\ Len(out) = 2


\* C11: the loop is one-in, at-most-one-out: a cycle sends at most one
\* event, what it sends comes from the event its own read delivered, the
\* events sent never outnumber the events read, and a cycle on a NoteOn or
\* PitchBend slot sends exactly one.
C11_OneInAtMostOneOut ==
    /\ Len(sent) <= 1
    /\ sent # <<>> => rdok
    /\ Len(out) <= Len(ins)
    /\ (CycleDone /\ i # NoSlot
          /\ map[i].ev_type \in {SND_SEQ_EVENT_NOTEON, SND_SEQ_EVENT_PITCHBEND}) =>
           Len(sent) = 1

\* C12: a termination signal can be taken in every state of the running
\* loop; once it is taken the grab is released, the sequencer is closed, the
\* process has exited with a non-zero status and nothing more is sent.
C12_Terminating ==
    /\ (Running /\ ~caught) => ENABLED Die
    /\ caught =>
          /\ pc = "exited"
          /\ ~grabbed
          /\ ~seqopen
          /\ status = 1
          /\ ~ENABLED Process
          /\ ~ENABLED Send

\* the signal came after an event had been sent
C12_Witness ==
    /\ caught
    /\ pc = "exited"
    /\ Len(out) = 1
    /\ ~grabbed
    /\ ~seqopen


\* C13: an override of slot k changes slot k only: every slot that no
\* option names, slots 3..21 among them, holds its default.
C13_OverrideFrame ==
    LET named == {opts[j].slot : j \in DOMAIN opts}
    IN  \A k \in Slots \ named : map[k] = DefaultMap[k]

\* slot 1 was overridden, the loop ran a cycle
C13_Witness ==
    /\ CycleDone
    /\ LastFor(1) # 0
    /\ map[1] # DefaultMap[1]
    /\ map[0] = DefaultMap[0]
    /\ map[21] = DefaultMap[21]

\* C14: the table changes only while the command line is processed, before
\* anything has been read; no step of the loop writes it.
C14_TableReadOnly ==
    [][map' # map => (pc = "args" /\ nread = 0 /\ ins = <<>>)]_vars

\* an overridden table went through a cycle that sent an event
C14_Witness ==
    /\ CycleDone
    /\ map # DefaultMap
    /\ opts # <<>>
    /\ Len(sent) = 1

C15_SignalBetweenCycles ==
    (pc = "exited" /\ caught /\ nread > 0 /\ rdok) =>
        /\ pgm # pgm0 =>
              /\ Len(sent) = 1
              /\ sent[1].type = SND_SEQ_EVENT_PGMCHANGE
              /\ sent[1].value = pgm
        /\ (/\ Recognized(iev)
            /\ DefaultMap[DocumentedSlot(iev)].ev_type \in
                  {SND_SEQ_EVENT_NOTEON, SND_SEQ_EVENT_PITCHBEND}) =>
              Len(sent) = 1


\* C17: pgm starts at 0 and only counts up: after n presses it is n and
\* the n-th program change carries n, beyond 127 as well.
C17_CounterUnbounded ==
    /\ nread = 0 => pgm = 0
    /\ pgm0 <= pgm
    /\ pgm <= pgm0 + 1
    /\ \A n \in 1..Len(out) : out[n] = Msg(SND_SEQ_EVENT_PGMCHANGE, 0, 0, n)
    /\ CycleDone => (pgm = nread /\ Len(out) = nread)

\* 128 presses were read and the last program change carries 128
C17_Witness ==
    /\ CycleDone
    /\ nread = 128
    /\ Len(ins) = 128
    /\ pgm = 128
    /\ Len(out) = 128
    /\ out[128].value = 128


\* C18: a sample with a raw value in 0..255 on a PitchBend slot sends one
\* pitch bend whose value lies in -8192..8191; the raw value 0 gives -8192.
C18_PitchBendRange ==
    (/\ CycleDone
     /\ i # NoSlot
     /\ map[i].ev_type = SND_SEQ_EVENT_PITCHBEND
     /\ iev.value >= 0
     /\ iev.value <= 255) =>
        /\ Len(sent) = 1
        /\ sent[1].type = SND_SEQ_EVENT_PITCHBEND
        /\ sent[1].value >= -8192
        /\ sent[1].value <= 8191
        /\ iev.value = 0 => sent[1].value = -8192

\* the largest raw value, 255, on ABS_RY gave 8128
C18_Witness ==
    /\ CycleDone
    /\ rdok
    /\ iev = Axis(ABS_RY, 255)
    /\ Len(sent) = 1
    /\ sent[1].value = 8128


\* C19: one counter serves both program buttons: a press of BTN_SELECT or
\* of BTN_START increments it and sends its new value, so the program
\* changes sent carry 1, 2, 3, ... in the order sent; an event that is not a
\* Key event of one of the two buttons (NoteOn and PitchBend inputs,
\* unrecognized pairs) leaves the counter as it was.
C19_SharedCounter ==
    /\ \A n \in 1..Len(out) :
          out[n].type = SND_SEQ_EVENT_PGMCHANGE =>
             out[n].value =
                Cardinality({k \in 1..n : out[k].type = SND_SEQ_EVENT_PGMCHANGE})
    /\ (CycleDone /\ IsProgramPress(iev)) =>
          /\ pgm = pgm0 + 1
          /\ Len(sent) = 1
          /\ sent[1].value = pgm
    /\ (CycleDone /\ ~(iev.type = EV_KEY /\ iev.code \in {BTN_SELECT, BTN_START})) =>
          pgm = pgm0

====
